---- MODULE Spec2Model ----
(***************************************************************************)
(* Model of gribs: the GribMapper object of src/gribs/gribmapper.py (the   *)
(* VARS resolution table, the IP1 level encoders, is_recognized, the       *)
(* record built by _fstd_meta and the write done by to_rpn) and the        *)
(* command-line converter of src/gribs/gribtorpn.py (cli and convert).     *)
(*                                                                         *)
(* Two specifications share the variables:                                 *)
(*   SpecMapper  the methods of one GribMapper object, called on every     *)
(*               message of a bounded domain;                              *)
(*   Spec        runs of the command-line converter against one target.    *)
(***************************************************************************)
EXTENDS Integers, Sequences, FiniteSets, TLC

VARIABLES
    gm,         \* the current GribMapper object (its attributes)
    ret,        \* what the last method call on gm returned
    run,        \* number of the converter run in progress (0: none yet)
    args,       \* the parsed command line of the run
    pc,         \* position of the run: idle, cli, convert, done, error
    pending,    \* files still to convert for the current source argument
    target,     \* the target file: whether it exists, and its records
    last,       \* what the last iteration of the loop of convert() did
    processed,  \* eligible fields processed so far in this run, in order
    base,       \* the records of the target when this run started
    prev        \* the previous run: its args.overwrite and how it ended

vars == <<gm, ret, run, args, pc, pending, target, last, processed, base, prev>>

---------------------------------------------------------------------------
(* Module constants of gribmapper.py.                                      *)

LVL_SFC == "surface"
LVL_ISBL == "isobaricInhPa"
LVL_ISBY == "isobaricLayer"
LVL_TGL == "heightAboveGround"
LVL_DBLL == "depthBelowLandLayer"
LVL_MSL == "meanSea"
LVL_EATM == "atmosphere"
LVL_NTAT == "nominalTop"

IP_KIND_PRESSURE == 2
IP_KIND_ARBITRARY == 3

\* Python's None.
None == "None"

\* GribMapper.VARS: variable name -> {"nomvar", optional "unit", optional "ip1"}.
SfcIsbl(n) == (LVL_SFC :> n) @@ (LVL_ISBL :> n)

VARS ==
    ("Albedo" :> [nomvar |-> SfcIsbl("AL")]) @@
    ("Cloud water" :> [nomvar |-> SfcIsbl("QC")]) @@
    ("Geopotential Height" :> [nomvar |-> SfcIsbl("GZ"), unit |-> "gpm_to_dam"]) @@
    ("Land-sea mask" :> [nomvar |-> SfcIsbl("MQ")]) @@
    ("Orography" :> [nomvar |-> SfcIsbl("MX")]) @@
    ("Pressure reduced to MSL" :> [nomvar |-> SfcIsbl("PN"), unit |-> "Pa_to_hPa"]) @@
    ("Sea ice area fraction" :> [nomvar |-> SfcIsbl("LG")]) @@
    ("Sea surface temperature" :> [nomvar |-> SfcIsbl("TM"), unit |-> "K_to_C"]) @@
    ("Skin temperature" :> [nomvar |-> SfcIsbl("TS"), unit |-> "K_to_C"]) @@
    ("Snow density" :> [nomvar |-> SfcIsbl("DN")]) @@
    ("Snow depth" :> [nomvar |-> SfcIsbl("SD"), unit |-> "m_to_cm",
                      ip1 |-> (LVL_SFC :> "ip1_snod_sfc")]) @@
    ("Soil moisture content" :> [nomvar |-> SfcIsbl("HS") @@ (LVL_DBLL :> "I1"),
                                 ip1 |-> (LVL_DBLL :> "ip1_soilw_dbll")]) @@
    ("Soil Temperature" :> [nomvar |-> SfcIsbl("TP") @@ (LVL_DBLL :> "I0"),
                            unit |-> "K_to_C",
                            ip1 |-> (LVL_DBLL :> "ip1_tsoil_dbll")]) @@
    ("Specific humidity" :> [nomvar |-> SfcIsbl("HU")]) @@
    ("Surface pressure" :> [nomvar |-> SfcIsbl("P0"), unit |-> "Pa_to_hPa"]) @@
    ("Temperature" :> [nomvar |-> SfcIsbl("TT"), unit |-> "K_to_C"]) @@
    ("U component of wind" :> [nomvar |-> SfcIsbl("UU"), unit |-> "m_per_s_to_kt"]) @@
    ("V component of wind" :> [nomvar |-> SfcIsbl("VV"), unit |-> "m_per_s_to_kt"]) @@
    ("Volumetric soil ice" :> [nomvar |-> SfcIsbl("I2")])

---------------------------------------------------------------------------
(* rmn.convertIp(mode, level, kind) as get_ip_code calls it: mode 2 packs  *)
(* (level, kind) in the new style, mode 3 in the old style.                *)

\* New style: a pseudo exponent starts at 4 and the value is scaled by powers
\* of ten until it lies in [lo, hi), the exponent staying within 1..14.
RECURSIVE Scale10(_, _, _, _)
Scale10(temp, iexp, lo, hi) ==
    IF iexp > 0 /\ iexp < 15 /\ temp >= hi THEN Scale10(temp \div 10, iexp - 1, lo, hi)
    ELSE IF iexp > 0 /\ iexp < 15 /\ temp < lo THEN Scale10(temp * 10, iexp + 1, lo, hi)
    ELSE <<temp, iexp>>

NewStyleIp(level, kind) ==
    LET s == IF level >= 0 THEN Scale10(level, 4, 100000, 1000000)
                           ELSE Scale10(-level, 4, 4800, 48000)
        mant == IF level >= 0 THEN s[1] ELSE s[1] + 1000000
    IN  kind * 16777216 + s[2] * 1048576 + mant

\* Old style: a pressure is its value in hPa, an arbitrary code c is 1200 - c
\* for 0 <= c <= 100; anything else is the library's error value.
OldStyleIp(level, kind) ==
    IF kind = IP_KIND_PRESSURE /\ 0 <= level /\ level <= 1100 THEN level
    ELSE IF kind = IP_KIND_ARBITRARY /\ 0 <= level /\ level <= 100 THEN 1200 - level
    ELSE -999999

convertIp(mode, level, kind) ==
    IF mode = 3 THEN OldStyleIp(level, kind) ELSE NewStyleIp(level, kind)

---------------------------------------------------------------------------
(* GribMapper.                                                             *)

\* __init__ followed by from_grib_message(msg).
from_grib_message(msg) ==
    [ip_oldstyle |-> FALSE, fstd_id |-> None, verbose |-> FALSE, etiket |-> "",
     msg |-> msg, level |-> msg.level, level_type |-> msg.typeOfLevel,
     gribvar |-> msg.name]

get_ip_code(g, level, kind) ==
    LET mode == IF g.ip_oldstyle THEN 3 ELSE 2
    IN  convertIp(mode, level, kind)

has_grid(g) == g.msg.gridDescriptionSectionPresent = 1

\* Mutant: the level of the message is encoded instead of the scale factor.
ip1_soilw_dbll_level(g) == get_ip_code(g, g.level, IP_KIND_ARBITRARY)

ip1_soilw_dbll(g) ==
    LET factor == g.msg.scaleFactorOfSecondFixedSurface
    IN  get_ip_code(g, factor, IP_KIND_ARBITRARY)

\* Mutant: the level of the message is encoded instead of the sentinel.
ip1_snod_sfc_level(g) == get_ip_code(g, g.level, IP_KIND_ARBITRARY)

ip1_snod_sfc(g) == get_ip_code(g, 1, IP_KIND_ARBITRARY)

ip1_tsoil_dbll(g) ==
    IF g.level_type = LVL_DBLL THEN get_ip_code(g, 1, IP_KIND_ARBITRARY) ELSE None

\* Mutant: the boundary 1101 is taken as a pressure.
ip1_from_level_inclusive(g) ==
    IF 0 <= g.level /\ g.level <= 1101
    THEN get_ip_code(g, g.level, IP_KIND_PRESSURE)
    ELSE get_ip_code(g, g.level, IP_KIND_ARBITRARY)

ip1_from_level(g) ==
    IF 0 <= g.level /\ g.level < 1101
    THEN get_ip_code(g, g.level, IP_KIND_PRESSURE)
    ELSE get_ip_code(g, g.level, IP_KIND_ARBITRARY)

\* getattr(self, ip1_func)()
CallIp1(name, g) ==
    CASE name = "ip1_soilw_dbll" -> ip1_soilw_dbll(g)
      [] name = "ip1_snod_sfc"   -> ip1_snod_sfc(g)
      [] name = "ip1_tsoil_dbll" -> ip1_tsoil_dbll(g)
      [] OTHER                   -> ip1_from_level(g)

\* The name of the encoder translate_to_rpn dispatches to.
Ip1Func(g) ==
    LET var == IF g.gribvar \in DOMAIN VARS THEN VARS[g.gribvar] ELSE [UNKNOWN |-> <<>>]
    IN  IF "ip1" \in DOMAIN var /\ g.level_type \in DOMAIN var.ip1
        THEN var.ip1[g.level_type] ELSE "ip1_from_level"

\* Mutant: an unmapped level type also resets the converter to the identity.
translate_to_rpn_reset_unit(g) ==
    LET var == IF g.gribvar \in DOMAIN VARS THEN VARS[g.gribvar] ELSE [UNKNOWN |-> <<>>]
        known == "nomvar" \in DOMAIN var /\ g.level_type \in DOMAIN var.nomvar
    IN  [var |-> var,
         ip1 |-> CallIp1(Ip1Func(g), g),
         nomvar |-> IF known THEN var.nomvar[g.level_type] ELSE "UNKN",
         unit_func |-> IF known /\ "unit" \in DOMAIN var THEN var.unit ELSE "ident"] @@ g

translate_to_rpn(g) ==
    LET var == IF g.gribvar \in DOMAIN VARS THEN VARS[g.gribvar] ELSE [UNKNOWN |-> <<>>]
    IN  [var |-> var,
         ip1 |-> CallIp1(Ip1Func(g), g),
         nomvar |-> IF "nomvar" \in DOMAIN var /\ g.level_type \in DOMAIN var.nomvar
                    THEN var.nomvar[g.level_type] ELSE "UNKN",
         unit_func |-> IF "unit" \in DOMAIN var THEN var.unit ELSE "ident"] @@ g

is_latlon(g) == g.msg.gridDefinitionDescription = "Latitude/longitude "

\* Mutant: either condition on the grid is enough.
is_convertable_either(g) == has_grid(g) \/ is_latlon(g)

is_convertable(g) == has_grid(g) /\ is_latlon(g)

\* Mutant: the table is not consulted.
is_recognized_grid_only(g) == is_convertable(g)

is_recognized(g) ==
    IF g.gribvar \in DOMAIN VARS
    THEN LET level_known == g.level_type \in DOMAIN VARS[g.gribvar].nomvar
         IN  level_known /\ is_convertable(g)
    ELSE FALSE

\* The format specification "<n": pad with blanks on the right up to width n;
\* a longer value is left as it is.
RECURSIVE LJust(_, _)
LJust(s, n) == IF Len(s) >= n THEN s ELSE LJust(s \o " ", n)

nomvar(g) == LJust(g.nomvar, 4)

\* The data property: the unit function applied to the values of the message.
data(g) == <<g.unit_func, g.msg.values>>

\* The fields _fstd_meta sets itself (the grid parameters and the dates are
\* computed by librmn from the message).
fstd_meta(g) ==
    [dtype |-> 1, deet |-> 3600, npas |-> 0, nbits |-> -32, datyp |-> 1,
     ip1 |-> g.ip1, ip2 |-> 0, ip3 |-> 0, typvar |-> "P ",
     nomvar |-> nomvar(g), etiket |-> LJust(g.etiket, 12), d |-> data(g)]

---------------------------------------------------------------------------
(* SpecMapper: one GribMapper object and its methods.                      *)

VarNames == DOMAIN VARS \cup {"Absolute vorticity"}
LevelTypes == {LVL_SFC, LVL_ISBL, LVL_ISBY, LVL_TGL, LVL_DBLL, LVL_MSL, LVL_EATM, LVL_NTAT}
Levels == {-1, 0, 10, 1100, 1101}
ScaleFactors == {1, 2}
GridDescriptions == {"Latitude/longitude ", "Polar stereographic "}
Etikets == {"G092V3N", "ABCDEFGHIJKL", "ABCDEFGHIJKLM"}

\* The messages of the model: every variable name and level type, with either
\* the grid description or the level and the scale factor varying.
GridMessages ==
    [name : VarNames, typeOfLevel : LevelTypes, level : {10},
     scaleFactorOfSecondFixedSurface : {1},
     gridDescriptionSectionPresent : {0, 1},
     gridDefinitionDescription : GridDescriptions,
     values : {1}]

LevelMessages ==
    [name : VarNames, typeOfLevel : LevelTypes, level : Levels,
     scaleFactorOfSecondFixedSurface : ScaleFactors,
     gridDescriptionSectionPresent : {1},
     gridDefinitionDescription : {"Latitude/longitude "},
     values : {1}]

Messages == GridMessages \cup LevelMessages

NoArgs == [overwrite |-> FALSE, dry |-> FALSE, oldstyle |-> FALSE, etiket |-> ""]
NoTarget == [exists |-> FALSE, recs |-> <<>>]
NoLast == [op |-> "none"]

CliIdle ==
    /\ run = 0 /\ args = NoArgs /\ pc = "idle" /\ pending = <<>>
    /\ target = NoTarget /\ last = NoLast /\ processed = <<>> /\ base = <<>>
    /\ prev = [overwrite |-> FALSE, pc |-> "idle"]

CliUnchanged ==
    UNCHANGED <<run, args, pc, pending, target, last, processed, base, prev>>

InitMapper ==
    /\ \E msg \in Messages : gm = from_grib_message(msg)
    /\ ret = [op |-> "from_grib_message"]
    /\ CliIdle

\* gm.etiket = value
SetEtiket ==
    /\ "ip1" \notin DOMAIN gm
    /\ \E e \in Etikets : gm' = [gm EXCEPT !.etiket = e]
    /\ ret' = [op |-> "etiket"]
    /\ CliUnchanged

\* gm.oldstyle = value
SetOldstyle ==
    /\ "ip1" \notin DOMAIN gm
    /\ \E b \in BOOLEAN : gm' = [gm EXCEPT !.ip_oldstyle = b]
    /\ ret' = [op |-> "oldstyle"]
    /\ CliUnchanged

\* gm.translate_to_rpn()
TranslateToRpn ==
    /\ "ip1" \notin DOMAIN gm
    /\ gm' = translate_to_rpn(gm)
    /\ ret' = [op |-> "translate_to_rpn", ip1_func |-> Ip1Func(gm)]
    /\ CliUnchanged

\* gm.is_recognized()
IsRecognized ==
    /\ ret' = [op |-> "is_recognized", value |-> is_recognized(gm)]
    /\ UNCHANGED gm
    /\ CliUnchanged

\* gm._fstd_meta(), which reads the attributes translate_to_rpn sets
FstdMeta ==
    /\ "ip1" \in DOMAIN gm
    /\ ret' = [op |-> "_fstd_meta", value |-> fstd_meta(gm)]
    /\ UNCHANGED gm
    /\ CliUnchanged

NextMapper ==
    \/ SetEtiket
    \/ SetOldstyle
    \/ TranslateToRpn
    \/ IsRecognized
    \/ FstdMeta

SpecMapper == InitMapper /\ [][NextMapper]_vars

---------------------------------------------------------------------------
(* Properties of the GribMapper methods, checked under SpecMapper.         *)

Translated == ret.op = "translate_to_rpn"
Mode == IF gm.ip_oldstyle THEN 3 ELSE 2
InTable(name, lt) == name \in DOMAIN VARS /\ lt \in DOMAIN VARS[name].nomvar
HasOverride(name, lt) ==
    name \in DOMAIN VARS /\ "ip1" \in DOMAIN VARS[name] /\ lt \in DOMAIN VARS[name].ip1
TableUnit(name) == IF "unit" \in DOMAIN VARS[name] THEN VARS[name].unit ELSE "ident"
TableEncoder(name, lt) ==
    IF HasOverride(name, lt) THEN VARS[name].ip1[lt] ELSE "ip1_from_level"

\* C1: is_recognized() returns True exactly when the variable name is a key of
\* VARS, the level type is a key of its "nomvar" map, the grid section is
\* present and the grid description is latitude/longitude.
C1_RecognizedIffTableAndGrid ==
    ret.op = "is_recognized" =>
        (ret.value <=>
            /\ InTable(gm.msg.name, gm.msg.typeOfLevel)
            /\ gm.msg.gridDescriptionSectionPresent = 1
            /\ gm.msg.gridDefinitionDescription = "Latitude/longitude ")

\* A variable and level type of the table on a grid that is not lat/lon is
\* rejected, and so is one with no grid section.
C1_Witness ==
    /\ ret.op = "is_recognized"
    /\ InTable(gm.msg.name, gm.msg.typeOfLevel)
    /\ gm.msg.gridDescriptionSectionPresent = 1
    /\ gm.msg.gridDefinitionDescription = "Polar stereographic "
    /\ ret.value = FALSE

\* C5 as stated: a name that is not in VARS, or a level type that is not in
\* its "nomvar" map, resolves to "UNKN", the identity converter and the
\* generic encoder; anything else to the mnemonic, the converter and the
\* encoder of the table.
C5_UnmappedResolvesToIdentity ==
    Translated =>
        IF ~InTable(gm.gribvar, gm.level_type)
        THEN /\ gm.nomvar = "UNKN"
             /\ gm.unit_func = "ident"
             /\ ret.ip1_func = "ip1_from_level"
             /\ gm.ip1 = ip1_from_level(gm)
        ELSE /\ gm.nomvar = VARS[gm.gribvar].nomvar[gm.level_type]
             /\ gm.unit_func = TableUnit(gm.gribvar)
             /\ ret.ip1_func = TableEncoder(gm.gribvar, gm.level_type)

\* C5 as amended: a name that is not in VARS resolves to "UNKN", the identity
\* converter and the generic encoder; a name of VARS with a level type that is
\* not mapped resolves to "UNKN", the converter of the variable and the generic
\* encoder; anything else to the mnemonic, the converter and the encoder of
\* the table.
C5_UnmappedLevelKeepsConverter ==
    Translated =>
        IF gm.gribvar \notin DOMAIN VARS
        THEN /\ gm.nomvar = "UNKN"
             /\ gm.unit_func = "ident"
             /\ ret.ip1_func = "ip1_from_level"
             /\ gm.ip1 = ip1_from_level(gm)
        ELSE IF ~InTable(gm.gribvar, gm.level_type)
        THEN /\ gm.nomvar = "UNKN"
             /\ gm.unit_func = TableUnit(gm.gribvar)
             /\ ret.ip1_func = "ip1_from_level"
             /\ gm.ip1 = ip1_from_level(gm)
        ELSE /\ gm.nomvar = VARS[gm.gribvar].nomvar[gm.level_type]
             /\ gm.unit_func = TableUnit(gm.gribvar)
             /\ ret.ip1_func = TableEncoder(gm.gribvar, gm.level_type)

\* "Temperature" at heightAboveGround: the mnemonic is the sentinel and the
\* converter is still K_to_C.
C5_Witness ==
    /\ Translated
    /\ gm.gribvar = "Temperature" /\ gm.level_type = LVL_TGL
    /\ gm.nomvar = "UNKN" /\ gm.unit_func = "K_to_C"

\* The code another field of the same variable and level type gets in the
\* encoding mode of gm.
CodeOf(msg) ==
    translate_to_rpn([from_grib_message(msg) EXCEPT !.ip_oldstyle = gm.ip_oldstyle]).ip1

\* C6: "Soil moisture content" at depthBelowLandLayer is encoded from the scale
\* factor with the arbitrary kind, in either mode: another such field has the
\* same code exactly when it has the same scale factor, whatever its level.
C6_SoilMoistureCodeTracksScaleFactor ==
    (Translated /\ gm.gribvar = "Soil moisture content" /\ gm.level_type = LVL_DBLL) =>
        /\ gm.ip1 = convertIp(Mode, gm.msg.scaleFactorOfSecondFixedSurface,
                              IP_KIND_ARBITRARY)
        /\ \A m \in Messages :
              (m.name = gm.gribvar /\ m.typeOfLevel = gm.level_type) =>
                  ((CodeOf(m) = gm.ip1) <=>
                      (m.scaleFactorOfSecondFixedSurface =
                          gm.msg.scaleFactorOfSecondFixedSurface))

\* A soil moisture field of scale factor 2 has been encoded, and fields of the
\* same level with scale factor 1 and of another level with scale factor 2 exist.
C6_Witness ==
    /\ Translated /\ gm.gribvar = "Soil moisture content" /\ gm.level_type = LVL_DBLL
    /\ gm.msg.scaleFactorOfSecondFixedSurface = 2 /\ gm.level = 10
    /\ \E m1, m2 \in Messages :
          /\ m1.name = gm.gribvar /\ m1.typeOfLevel = LVL_DBLL
          /\ m2.name = gm.gribvar /\ m2.typeOfLevel = LVL_DBLL
          /\ m1.level = 10 /\ m1.scaleFactorOfSecondFixedSurface = 1
          /\ m2.level = 1100 /\ m2.scaleFactorOfSecondFixedSurface = 2
          /\ CodeOf(m1) # gm.ip1 /\ CodeOf(m2) = gm.ip1

\* C7: without an override the generic encoder takes the pressure kind exactly
\* when 0 <= level < 1101 and the arbitrary kind otherwise, and passes the
\* level itself, in either mode.
C7_GenericKindByLevel ==
    (Translated /\ ~HasOverride(gm.gribvar, gm.level_type)) =>
        gm.ip1 = convertIp(Mode, gm.msg.level,
                           IF 0 <= gm.msg.level /\ gm.msg.level < 1101
                           THEN IP_KIND_PRESSURE ELSE IP_KIND_ARBITRARY)

\* The boundary 1101 in the new style: the code carries the arbitrary kind.
C7_Witness ==
    /\ Translated /\ ~HasOverride(gm.gribvar, gm.level_type)
    /\ gm.msg.level = 1101 /\ ~gm.ip_oldstyle
    /\ gm.ip1 = convertIp(2, 1101, IP_KIND_ARBITRARY)
    /\ gm.ip1 # convertIp(2, 1101, IP_KIND_PRESSURE)

\* C8: "Snow depth" at surface and "Soil Temperature" at depthBelowLandLayer,
\* and every pair that dispatches to their encoders, get the code of level 1
\* of the mode, an integer, whatever the level of the field.
C8_SentinelLevelCode ==
    (Translated /\
        \/ gm.gribvar = "Snow depth" /\ gm.level_type = LVL_SFC
        \/ gm.gribvar = "Soil Temperature" /\ gm.level_type = LVL_DBLL
        \/ ret.ip1_func \in {"ip1_snod_sfc", "ip1_tsoil_dbll"}) =>
        /\ gm.ip1 \in Int
        /\ gm.ip1 = convertIp(Mode, 1, IP_KIND_ARBITRARY)
        /\ gm.ip1 = IF gm.ip_oldstyle THEN 1199 ELSE 59868832

C8_Witness ==
    /\ Translated
    /\ gm.gribvar = "Snow depth" /\ gm.level_type = LVL_SFC
    /\ gm.msg.level = 1100 /\ ~gm.ip_oldstyle
    /\ gm.ip1 = 59868832

\* C9: in every record built by _fstd_meta the etiket is 12 characters long
\* and the mnemonic 4, and nbits = -32, typvar = "P ", ip2 = 0 and ip3 = 0.
C9_EtiketIsTwelveCharacters ==
    ret.op = "_fstd_meta" =>
        /\ Len(ret.value.etiket) = 12
        /\ Len(ret.value.nomvar) = 4
        /\ ret.value.nbits = -32
        /\ ret.value.typvar = "P "
        /\ ret.value.ip2 = 0
        /\ ret.value.ip3 = 0

---------------------------------------------------------------------------
(* The target file and the writer calls of to_rpn.                         *)

\* The descriptors by which librmn tells records apart: all of the metadata,
\* not the data.
Key(rec) == [nomvar |-> rec.nomvar, typvar |-> rec.typvar, etiket |-> rec.etiket,
             ip1 |-> rec.ip1, ip2 |-> rec.ip2, ip3 |-> rec.ip3]

HasKey(recs, k) == \E i \in 1..Len(recs) : Key(recs[i]) = k

\* rmn.fstecr(iunit, data, meta, rewrite): with rewrite a record with the same
\* descriptors is replaced, in its place or by erasing it and writing the new
\* one at the end of the file; otherwise the record is written at the end.
fstecr(recs, rec, rewrite, inplace) ==
    IF rewrite /\ HasKey(recs, Key(rec))
    THEN LET i == CHOOSE j \in 1..Len(recs) :
                      /\ Key(recs[j]) = Key(rec)
                      /\ \A k \in 1..(j-1) : Key(recs[k]) # Key(rec)
         IN  IF inplace THEN [recs EXCEPT ![i] = rec]
             ELSE Append(SubSeq(recs, 1, i-1) \o SubSeq(recs, i+1, Len(recs)), rec)
    ELSE Append(recs, rec)

\* Mutant: the target is never unlinked.
init_fstd_file_keep(tgt, overwrite) ==
    [target |-> [exists |-> TRUE, recs |-> tgt.recs], ops |-> <<"open">>, fstd_id |-> 1]

\* Mutant: an existing target is unlinked whatever overwrite says.
init_fstd_file_always(tgt, overwrite) ==
    [target |-> [exists |-> TRUE, recs |-> <<>>],
     ops |-> IF tgt.exists THEN <<"unlink", "open">> ELSE <<"open">>,
     fstd_id |-> 1]

\* _init_fstd_file: unlink an existing target when overwrite is set, then
\* fstopenall(target, FST_RW), which creates the file when it is missing.
init_fstd_file(tgt, overwrite) ==
    LET unlinked == tgt.exists /\ overwrite
    IN  [target |-> [exists |-> TRUE, recs |-> IF unlinked THEN <<>> ELSE tgt.recs],
         ops |-> IF unlinked THEN <<"unlink", "open">> ELSE <<"open">>,
         fstd_id |-> 1]

\* Mutant: fstecr is called without rewrite.
to_rpn_no_rewrite(g, tgt, overwrite, ip_oldstyle, verbose, fails, inplace) ==
    LET g1 == translate_to_rpn([g EXCEPT !.verbose = verbose,
                                         !.ip_oldstyle = ip_oldstyle])
        f  == init_fstd_file(tgt, overwrite)
        g2 == [g1 EXCEPT !.fstd_id = f.fstd_id]
    IN  IF fails
        THEN [gm |-> g2, target |-> f.target, ops |-> f.ops, raised |-> TRUE]
        ELSE [gm |-> [g2 EXCEPT !.fstd_id = None],
              target |-> [f.target EXCEPT
                              !.recs = fstecr(f.target.recs, fstd_meta(g2), FALSE, inplace)],
              ops |-> f.ops \o <<"write", "close">>,
              raised |-> FALSE]

\* to_rpn: fails says that fstecr raises FSTDError, which to_rpn turns into
\* IOError, leaving the file open.
to_rpn(g, tgt, overwrite, ip_oldstyle, verbose, fails, inplace) ==
    LET g1 == translate_to_rpn([g EXCEPT !.verbose = verbose,
                                         !.ip_oldstyle = ip_oldstyle])
        f  == init_fstd_file(tgt, overwrite)
        g2 == [g1 EXCEPT !.fstd_id = f.fstd_id]
    IN  IF fails
        THEN [gm |-> g2, target |-> f.target, ops |-> f.ops, raised |-> TRUE]
        ELSE [gm |-> [g2 EXCEPT !.fstd_id = None],
              target |-> [f.target EXCEPT
                              !.recs = fstecr(f.target.recs, fstd_meta(g2), TRUE, inplace)],
              ops |-> f.ops \o <<"write", "close">>,
              raised |-> FALSE]

---------------------------------------------------------------------------
(* Spec: runs of the command-line converter (cli and convert).             *)

MaxRuns == 2       \* runs of the converter against the one target
MaxFields == 2     \* eligible fields processed in one run

\* Files are named by numbers, in the order sorted() gives their names.
FileNames == {1, 2}

Field(name, lt, desc, vals) ==
    [name |-> name, typeOfLevel |-> lt, level |-> 10,
     scaleFactorOfSecondFixedSurface |-> 1, gridDescriptionSectionPresent |-> 1,
     gridDefinitionDescription |-> desc, values |-> vals]

\* The messages the source files hold: two eligible fields, a variable that
\* is not in VARS, a level type that is not mapped, a grid that is not lat/lon.
CliMessages ==
    {Field("Temperature", LVL_SFC, "Latitude/longitude ", 1),
     Field("Soil moisture content", LVL_DBLL, "Latitude/longitude ", 1),
     Field("Absolute vorticity", LVL_ISBL, "Latitude/longitude ", 1),
     Field("Temperature", LVL_TGL, "Latitude/longitude ", 1),
     Field("Temperature", LVL_SFC, "Polar stereographic ", 1)}

CliArgs == [overwrite : BOOLEAN, dry : BOOLEAN, oldstyle : BOOLEAN, etiket : {"G092V3N"}]

RECURSIVE Insert(_, _)
Insert(x, seq) ==
    IF seq = <<>> THEN <<x>>
    ELSE IF x <= Head(seq) THEN <<x>> \o seq
    ELSE <<Head(seq)>> \o Insert(x, Tail(seq))

RECURSIVE sorted(_)
sorted(seq) == IF seq = <<>> THEN <<>> ELSE Insert(Head(seq), sorted(Tail(seq)))

\* What pt.glob() may yield: the files of a directory, in any order.
Globs == {g \in UNION {[1..n -> FileNames] : n \in 0..Cardinality(FileNames)} :
              \A i, j \in 1..Len(g) : i # j => g[i] # g[j]}

Init ==
    /\ gm = None /\ ret = [op |-> "none"]
    /\ CliIdle

\* cli(): parse the command line and enter the loop over args.source.  The
\* mapper of an earlier run is gone (its __del__ closes what it left open).
Cli ==
    /\ pc \in {"idle", "done", "error"}
    /\ run < MaxRuns
    /\ \E a \in CliArgs : args' = a
    /\ run' = run + 1
    /\ prev' = [overwrite |-> args.overwrite, pc |-> pc]
    /\ pc' = "cli"
    /\ pending' = <<>>
    /\ processed' = <<>>
    /\ base' = target.recs
    /\ last' = [op |-> "cli"]
    /\ gm' = None
    /\ UNCHANGED <<ret, target>>

\* for pt in args.source, pt.is_file(): convert(pt, args)
SourceFile ==
    /\ pc = "cli"
    /\ \E f \in FileNames : pending' = <<f>>
    /\ pc' = "convert"
    /\ last' = [op |-> "source", kind |-> "file"]
    /\ UNCHANGED <<gm, ret, run, args, target, processed, base, prev>>

\* pt.is_dir(): for f in sorted(pt.glob(args.glob)): convert(f, args)
SourceDir ==
    /\ pc = "cli"
    /\ \E g \in Globs :
          /\ pending' = sorted(g)
          /\ pc' = IF g = <<>> THEN "cli" ELSE "convert"
    /\ last' = [op |-> "source", kind |-> "dir"]
    /\ UNCHANGED <<gm, ret, run, args, target, processed, base, prev>>

\* pt is neither a file nor a directory: nothing is done for it
SourceOther ==
    /\ pc = "cli"
    /\ last' = [op |-> "source", kind |-> "other"]
    /\ UNCHANGED <<gm, ret, run, args, pc, pending, target, processed, base, prev>>

\* One iteration of the loop of convert() over the messages of the file.
ConvertMessage ==
    /\ pc = "convert"
    /\ \E msg \in CliMessages, fails \in BOOLEAN, inplace \in BOOLEAN :
          LET g0 == [from_grib_message(msg) EXCEPT !.etiket = args.etiket]
              r  == to_rpn(g0, target, args.overwrite, args.oldstyle, FALSE, fails, inplace)
              info == [op |-> "convert", msg |-> msg, existed |-> target.exists,
                       lenBefore |-> Len(target.recs)]
          IN  IF is_recognized(g0)
              THEN /\ Len(processed) < MaxFields
                   /\ processed' = Append(processed, msg)
                   /\ IF ~args.dry
                      THEN /\ gm' = r.gm
                           /\ target' = r.target
                           /\ pc' = IF r.raised THEN "error" ELSE pc
                           /\ last' = [diag |-> "Converting", ops |-> r.ops,
                                       raised |-> r.raised,
                                       keyExisted |-> HasKey(target.recs,
                                                             Key(fstd_meta(r.gm)))] @@ info
                      ELSE /\ fails = FALSE /\ inplace = FALSE
                           /\ gm' = g0
                           /\ last' = [diag |-> "Converting", ops |-> <<>>,
                                       raised |-> FALSE, keyExisted |-> FALSE] @@ info
                           /\ UNCHANGED <<target, pc>>
              ELSE /\ fails = FALSE /\ inplace = FALSE
                   /\ gm' = g0
                   /\ last' = [diag |-> "missing", ops |-> <<>>,
                               raised |-> FALSE, keyExisted |-> FALSE] @@ info
                   /\ UNCHANGED <<target, pc, processed>>
    /\ UNCHANGED <<ret, run, args, pending, base, prev>>

\* The file has no more messages: convert() returns.
ConvertEnd ==
    /\ pc = "convert"
    /\ pending' = Tail(pending)
    /\ pc' = IF Tail(pending) = <<>> THEN "cli" ELSE "convert"
    /\ last' = [op |-> "convert_end"]
    /\ gm' = None
    /\ UNCHANGED <<ret, run, args, target, processed, base, prev>>

\* args.source is exhausted: cli() returns.
CliEnd ==
    /\ pc = "cli"
    /\ pc' = "done"
    /\ last' = [op |-> "cli_end"]
    /\ UNCHANGED <<gm, ret, run, args, pending, target, processed, base, prev>>

Next ==
    \/ Cli
    \/ SourceFile
    \/ SourceDir
    \/ SourceOther
    \/ ConvertMessage
    \/ ConvertEnd
    \/ CliEnd

Spec == Init /\ [][Next]_vars

---------------------------------------------------------------------------
(* Properties of the converter runs, checked under Spec.                   *)

\* The record to_rpn builds for a message under the command line of the run.
RecordOf(msg) ==
    fstd_meta(translate_to_rpn([from_grib_message(msg) EXCEPT
                                    !.etiket = args.etiket,
                                    !.ip_oldstyle = args.oldstyle]))

Records(seq) == [i \in 1..Len(seq) |-> RecordOf(seq[i])]

DistinctKeys(recs) ==
    \A i, j \in 1..Len(recs) : i # j => Key(recs[i]) # Key(recs[j])

Range(seq) == {seq[i] : i \in 1..Len(seq)}

\* The last step was an iteration of convert() that called to_rpn.
CalledToRpn == last.op = "convert" /\ last.ops # <<>>

\* C2: a message whose name is not in VARS, or whose level type is not mapped
\* for it, causes no writer call (the target is not unlinked, opened or
\* written) and only the 'missing' diagnostic; no record with the mnemonic
\* "UNKN" is ever in the target.
C2_UnmappedCausesNoWriterCall ==
    /\ (last.op = "convert" /\ ~InTable(last.msg.name, last.msg.typeOfLevel)) =>
          /\ last.ops = <<>>
          /\ last.diag = "missing"
          /\ ~last.raised
          /\ target.exists = last.existed
          /\ Len(target.recs) = last.lenBefore
    /\ \A i \in 1..Len(target.recs) : target.recs[i].nomvar # "UNKN"

\* An unmapped level type met in a run with --overwrite, without --dry, the
\* target being there with a record.
C2_Witness ==
    /\ last.op = "convert"
    /\ last.msg.name = "Temperature" /\ last.msg.typeOfLevel = LVL_TGL
    /\ args.overwrite /\ ~args.dry
    /\ target.exists /\ Len(target.recs) = 1
    /\ last.diag = "missing"

\* C3 as stated, for the runs that write, with no two records of one key:
\* when the run ends the target holds, after what it held before, the records
\* of all eligible fields processed, in the order they were processed.
C3_TargetHoldsAllProcessedInOrder ==
    (pc = "done" /\ ~args.dry /\ DistinctKeys(base \o Records(processed))) =>
        target.recs = base \o Records(processed)

\* C3 as amended: the same, for the runs without --overwrite, at every point
\* of a run in which no write has failed.
C3_TargetHoldsAllProcessedWithoutOverwrite ==
    (pc \in {"cli", "convert", "done"} /\ ~args.dry /\ ~args.overwrite
        /\ DistinctKeys(base \o Records(processed))) =>
        target.recs = base \o Records(processed)

C3_Witness ==
    /\ pc = "done" /\ ~args.dry /\ ~args.overwrite
    /\ Len(processed) = 2 /\ processed[1] # processed[2]
    /\ base # <<>>
    /\ DistinctKeys(base \o Records(processed))
    /\ target.recs = base \o Records(processed)

\* The second of two runs without --overwrite, the first of which ended
\* normally, has written, through to_rpn, a record that the target held when
\* the run started.
SecondRunSameRecord ==
    /\ run >= 2 /\ prev.pc = "done" /\ ~prev.overwrite /\ ~args.overwrite
    /\ CalledToRpn
    /\ last.keyExisted
    /\ \E i \in 1..Len(base) : base[i] = RecordOf(last.msg)

\* C4 as stated: that write of the second run fails (to_rpn raises IOError).
C4_SecondRunWriteFails ==
    SecondRunSameRecord => last.raised

\* C4 as amended: that write of the second run, when fstecr itself does not
\* fail, replaces the record of the same key: the target has as many records as
\* before and one record of that key, the one just written.
C4_SecondRunWriteReplaces ==
    (SecondRunSameRecord /\ ~last.raised) =>
        /\ Len(target.recs) = last.lenBefore
        /\ Cardinality({i \in 1..Len(target.recs) :
                            Key(target.recs[i]) = Key(RecordOf(last.msg))}) = 1
        /\ \E i \in 1..Len(target.recs) : target.recs[i] = fstd_meta(gm)

C4_Witness ==
    /\ SecondRunSameRecord /\ ~last.raised
    /\ run = 2
    /\ Len(target.recs) = 2

\* C10: with overwrite every to_rpn call unlinks the target it finds, so that
\* after two or more eligible fields the target holds the record of the last
\* one alone; without overwrite no call unlinks it; a call that returns has
\* opened the target once and closed it, and the handle is None.
C10_OverwriteUnlinksOnEveryCall ==
    /\ CalledToRpn =>
          /\ args.overwrite =>
                /\ last.existed => Head(last.ops) = "unlink"
                /\ ~last.raised => target.recs = <<fstd_meta(gm)>>
          /\ ~args.overwrite => "unlink" \notin Range(last.ops)
          /\ ~last.raised =>
                /\ Cardinality({i \in 1..Len(last.ops) : last.ops[i] = "open"}) = 1
                /\ last.ops[Len(last.ops)] = "close"
                /\ gm.fstd_id = None
    /\ (args.overwrite /\ ~args.dry /\ pc \in {"cli", "convert", "done"}
            /\ processed # <<>>) =>
          target.recs = <<RecordOf(processed[Len(processed)])>>

C10_Witness ==
    /\ pc = "done" /\ args.overwrite /\ ~args.dry
    /\ Len(processed) >= 2 /\ processed[1] # processed[2]
    /\ target.recs = <<RecordOf(processed[Len(processed)])>>

====
